---- MODULE Spec2Model ----
(***************************************************************************)
(* Model of the Stellar Credit scoring core                                *)
(* (src/ai-engine/stellar_ai_scoring.py) and of the fixtures of            *)
(* src/ai-engine/api_server.py that refer to it.                           *)
(*                                                                         *)
(* Python floats are modelled as fixed-point integers: the float x is the  *)
(* integer x * One (thousandths).  Weights and bonus factors are kept in   *)
(* hundredths, so a weighted sum is carried in units of 1/(100*One) and is *)
(* divided only once, where the code converts it to an integer score.      *)
(***************************************************************************)
EXTENDS Integers, Sequences, FiniteSets, TLC

VARIABLES
    pc,               \* position inside analyze_wallet
    response,         \* what the ledger service answered to the query
    transactions,     \* list returned by _fetch_wallet_transactions
    metrics,          \* WalletMetrics
    score,            \* int returned by _calculate_credit_score
    terms,            \* tuple returned by _determine_loan_terms
    stages,           \* stages of the orchestrator run so far, in order
    result            \* what is returned to the caller (a CreditScore, or the
                      \* outcome of get_loan_offers), or NoResult

vars == <<pc, response, transactions, metrics, score, terms, stages, result>>

-----------------------------------------------------------------------------
(* Fixed-point helpers *)

\* the float 1.0
One == 1000

Min(a, b) == IF a <= b THEN a ELSE b

Max(a, b) == IF a >= b THEN a ELSE b

\* Python int(x) of the quotient n / d, d > 0: truncation toward zero
Trunc(n, d) == IF n >= 0 THEN n \div d ELSE -((-n) \div d)

-----------------------------------------------------------------------------
(* Class constants of StellarCreditAI *)

\* in hundredths: 0.20, 0.30, 0.15, 0.20, 0.15
WEIGHTS ==
    [volume |-> 20, punctuality |-> 30, frequency |-> 15,
     diversification |-> 20, balance |-> 15]

NORMALIZATION_LIMITS ==
    [max_volume |-> 50000, max_frequency |-> 100, max_balance |-> 10000,
     min_age_days |-> 30, optimal_age_days |-> 365]

\* metrics.age_score * 0.1 and metrics.network_activity * 0.05, in hundredths
BONUS == [age |-> 10, network |-> 5]

-----------------------------------------------------------------------------
(* WalletMetrics and the score composer *)

WalletMetrics(vol, cnt, bal, punct, freq, div, age, net) ==
    [total_volume_3m |-> vol, transaction_count_3m |-> cnt, avg_balance |-> bal,
     payment_punctuality |-> punct, usage_frequency |-> freq,
     diversification_score |-> div, age_score |-> age, network_activity |-> net]

_default_metrics == WalletMetrics(0, 0, 0, 0, 0, 0, 0, 0)

\* a bonus that is subtracted instead of added
CalculateCreditScoreBonusSubtracted(m) ==
    LET nv == Min(m.total_volume_3m \div NORMALIZATION_LIMITS.max_volume, One)
        nf == Min(m.usage_frequency \div NORMALIZATION_LIMITS.max_frequency, One)
        nb == Min(m.avg_balance \div NORMALIZATION_LIMITS.max_balance, One)
        weighted_score ==
              nv * WEIGHTS.volume
            + m.payment_punctuality * WEIGHTS.punctuality
            + nf * WEIGHTS.frequency
            + m.diversification_score * WEIGHTS.diversification
            + nb * WEIGHTS.balance
        final_score == weighted_score + m.age_score * BONUS.age
                                      - m.network_activity * BONUS.network
    IN  Trunc(Min(final_score * 1000, 1000 * 100 * One), 100 * One)

_calculate_credit_score(m) ==
    LET normalized_volume ==
            Min(m.total_volume_3m \div NORMALIZATION_LIMITS.max_volume, One)
        normalized_frequency ==
            Min(m.usage_frequency \div NORMALIZATION_LIMITS.max_frequency, One)
        normalized_balance ==
            Min(m.avg_balance \div NORMALIZATION_LIMITS.max_balance, One)
        weighted_score ==
              normalized_volume * WEIGHTS.volume
            + m.payment_punctuality * WEIGHTS.punctuality
            + normalized_frequency * WEIGHTS.frequency
            + m.diversification_score * WEIGHTS.diversification
            + normalized_balance * WEIGHTS.balance
        age_bonus == m.age_score * BONUS.age
        network_bonus == m.network_activity * BONUS.network
        final_score == weighted_score + age_bonus + network_bonus
    IN  Trunc(Min(final_score * 1000, 1000 * 100 * One), 100 * One)

-----------------------------------------------------------------------------
(* Loan terms: (risk_level, max_loan_amount, interest_rate), the last two  *)
(* in fixed point (2000.0 is 2000 * One, 0.025 is 25)                      *)

\* the first threshold tested with > instead of >=
DetermineLoanTermsStrictTop(s) ==
    IF s > 750 THEN <<"LOW", 2000 * One, 20>>
    ELSE IF s >= 600 THEN <<"LOW", 1000 * One, 25>>
    ELSE IF s >= 450 THEN <<"MEDIUM", 500 * One, 40>>
    ELSE IF s >= 300 THEN <<"MEDIUM", 200 * One, 60>>
    ELSE <<"HIGH", 0, 100>>

\* the second branch handing out the third branch's terms
DetermineLoanTermsSecondAsThird(s) ==
    IF s >= 750 THEN <<"LOW", 2000 * One, 20>>
    ELSE IF s >= 600 THEN <<"MEDIUM", 500 * One, 40>>
    ELSE IF s >= 450 THEN <<"MEDIUM", 500 * One, 40>>
    ELSE IF s >= 300 THEN <<"MEDIUM", 200 * One, 60>>
    ELSE <<"HIGH", 0, 100>>

_determine_loan_terms(s) ==
    IF s >= 750 THEN <<"LOW", 2000 * One, 20>>
    ELSE IF s >= 600 THEN <<"LOW", 1000 * One, 25>>
    ELSE IF s >= 450 THEN <<"MEDIUM", 500 * One, 40>>
    ELSE IF s >= 300 THEN <<"MEDIUM", 200 * One, 60>>
    ELSE <<"HIGH", 0, 100>>

-----------------------------------------------------------------------------
(* Outcome of a call: the value it returns, or the exception it raises *)

Returned(v) == [exc |-> "none", val |-> v]

Raised(e) == [exc |-> e, val |-> <<>>]

-----------------------------------------------------------------------------
(* Raw operation records of the ledger service.  A record is a Python dict: *)
(* a key that is absent is absent from the DOMAIN.  created_at is the text  *)
(* of a timestamp: its form ("utc_z": ISO-8601 ending in 'Z', "naive":      *)
(* ISO-8601 without a UTC offset, "unparsable") and how many whole days     *)
(* before the fetch it lies.  amount and source_amount are the text of a    *)
(* decimal: whether float() accepts it, and its value.                      *)

WALLET == "GWALLET"

COUNTERPARTY == "GCOUNTERPARTY"

Text(days_ago, form) == [form |-> form, days_ago |-> days_ago]

Decimal(v) == [numeric |-> TRUE, value |-> v]

NotADecimal == [numeric |-> FALSE, value |-> 0]

Payment(id, created_at, from, to, amount, asset_type, successful) ==
    [id |-> id, type |-> "payment", created_at |-> created_at, from |-> from,
     to |-> to, amount |-> amount, asset_type |-> asset_type,
     successful |-> successful]

PathPayment(id, type, created_at, from, to, amount, asset_type, source_amount, source_asset_type) ==
    [id |-> id, type |-> type, created_at |-> created_at, from |-> from,
     to |-> to, amount |-> amount, asset_type |-> asset_type,
     source_amount |-> source_amount, source_asset_type |-> source_asset_type]

\* the dict d without the key k
Without(d, k) == [x \in DOMAIN d \ {k} |-> d[x]]

-----------------------------------------------------------------------------
(* _parse_payment_operation *)

TransactionData(id, type, amount, asset, from_address, to_address, timestamp, successful) ==
    [id |-> id, type |-> type, amount |-> amount, asset |-> asset,
     from_address |-> from_address, to_address |-> to_address,
     timestamp |-> timestamp, successful |-> successful]

None == [none |-> TRUE]

\* datetime.fromisoformat(operation['created_at'].replace('Z', '+00:00'))
ParseCreatedAt(op) ==
    IF "created_at" \notin DOMAIN op THEN Raised("KeyError")
    ELSE IF op.created_at.form = "unparsable" THEN Raised("ValueError")
    ELSE Returned([aware |-> op.created_at.form = "utc_z",
                   days_ago |-> op.created_at.days_ago])

\* float(operation[key])
ParseFloat(op, key) ==
    IF key \notin DOMAIN op THEN Raised("KeyError")
    ELSE IF ~op[key].numeric THEN Raised("ValueError")
    ELSE Returned(op[key].value)

\* a path payment always read on its destination side
ParsePaymentBodyDestinationSide(operation, wallet_address) ==
    IF "type" \notin DOMAIN operation THEN Raised("KeyError")
    ELSE IF ParseCreatedAt(operation).exc # "none" THEN ParseCreatedAt(operation)
    ELSE LET op_type == operation.type
             timestamp == ParseCreatedAt(operation).val.days_ago
             outgoing == operation.from = wallet_address
             path == op_type \in {"path_payment_strict_send",
                                  "path_payment_strict_receive"}
             tx_type == IF op_type = "payment"
                        THEN (IF outgoing THEN "payment" ELSE "receive")
                        ELSE (IF outgoing THEN "path_payment_send"
                              ELSE "path_payment_receive")
         IN  IF op_type # "payment" /\ ~path THEN Returned(None)
             ELSE IF ~({"from", "to"} \subseteq DOMAIN operation)
                  THEN Raised("KeyError")
             ELSE IF ParseFloat(operation, "amount").exc # "none"
                  THEN ParseFloat(operation, "amount")
             ELSE IF ~({"asset_type", "id"} \subseteq DOMAIN operation)
                  THEN Raised("KeyError")
             ELSE Returned(TransactionData(
                      operation.id, tx_type,
                      ParseFloat(operation, "amount").val,
                      IF operation.asset_type # "native"
                      THEN operation.asset_type ELSE "XLM",
                      operation.from, operation.to, timestamp,
                      IF "successful" \in DOMAIN operation
                      THEN operation.successful ELSE TRUE))

\* the body of the try block
ParsePaymentBody(operation, wallet_address) ==
    IF "type" \notin DOMAIN operation THEN Raised("KeyError")
    ELSE IF ParseCreatedAt(operation).exc # "none" THEN ParseCreatedAt(operation)
    ELSE LET op_type == operation.type
             timestamp == ParseCreatedAt(operation).val.days_ago
             outgoing == operation.from = wallet_address
             path == op_type \in {"path_payment_strict_send",
                                  "path_payment_strict_receive"}
             amount_key == IF path /\ outgoing THEN "source_amount" ELSE "amount"
             asset_key == IF path /\ outgoing THEN "source_asset_type"
                          ELSE "asset_type"
             tx_type == IF op_type = "payment"
                        THEN (IF outgoing THEN "payment" ELSE "receive")
                        ELSE (IF outgoing THEN "path_payment_send"
                              ELSE "path_payment_receive")
         IN  IF op_type # "payment" /\ ~path THEN Returned(None)
             ELSE IF ~({"from", "to"} \subseteq DOMAIN operation)
                  THEN Raised("KeyError")
             ELSE IF ParseFloat(operation, amount_key).exc # "none"
                  THEN ParseFloat(operation, amount_key)
             ELSE IF ~({asset_key, "id"} \subseteq DOMAIN operation)
                  THEN Raised("KeyError")
             ELSE Returned(TransactionData(
                      operation.id, tx_type,
                      ParseFloat(operation, amount_key).val,
                      IF operation[asset_key] # "native"
                      THEN operation[asset_key] ELSE "XLM",
                      operation.from, operation.to, timestamp,
                      IF "successful" \in DOMAIN operation
                      THEN operation.successful ELSE TRUE))

\* try: ... except Exception: return None
_parse_payment_operation(operation, wallet_address) ==
    LET body == ParsePaymentBody(operation, wallet_address)
    IN  IF body.exc # "none" THEN Returned(None) ELSE body

-----------------------------------------------------------------------------
(* _fetch_wallet_transactions *)

\* timedelta(days=90)
LOOKBACK_DAYS == 90

PAYMENT_FAMILY ==
    {"payment", "path_payment_strict_send", "path_payment_strict_receive"}

\* a loop that does not compare op_date with three_months_ago
RECURSIVE FetchLoopNoCutoff(_, _, _)
FetchLoopNoCutoff(records, address, acc) ==
    IF records = <<>> THEN Returned(acc)
    ELSE LET op == Head(records)
             op_date == ParseCreatedAt(op)
         IN  IF op_date.exc # "none" THEN op_date
             ELSE IF "type" \notin DOMAIN op THEN Raised("KeyError")
             ELSE IF op.type \notin PAYMENT_FAMILY
                  THEN FetchLoopNoCutoff(Tail(records), address, acc)
             ELSE LET transaction == _parse_payment_operation(op, address)
                  IN  IF transaction.exc # "none" THEN transaction
                      ELSE IF transaction.val = None
                           THEN FetchLoopNoCutoff(Tail(records), address, acc)
                      ELSE FetchLoopNoCutoff(Tail(records), address,
                                             Append(acc, transaction.val))

\* the for loop over operations['_embedded']['records']: the list built, or
\* the first exception a record raises
RECURSIVE FetchLoop(_, _, _)
FetchLoop(records, address, acc) ==
    IF records = <<>> THEN Returned(acc)
    ELSE LET op == Head(records)
             op_date == ParseCreatedAt(op)
         IN  IF op_date.exc # "none" THEN op_date
             \* op_date < three_months_ago: three_months_ago comes from
             \* datetime.now() and is naive; an aware op_date cannot be
             \* compared with it
             ELSE IF op_date.val.aware THEN Raised("TypeError")
             ELSE IF op_date.val.days_ago > LOOKBACK_DAYS
                  THEN FetchLoop(Tail(records), address, acc)
             ELSE IF "type" \notin DOMAIN op THEN Raised("KeyError")
             ELSE IF op.type \notin PAYMENT_FAMILY
                  THEN FetchLoop(Tail(records), address, acc)
             ELSE LET transaction == _parse_payment_operation(op, address)
                  IN  IF transaction.exc # "none" THEN transaction
                      ELSE IF transaction.val = None
                           THEN FetchLoop(Tail(records), address, acc)
                      ELSE FetchLoop(Tail(records), address,
                                     Append(acc, transaction.val))

\* the body of the try block: the query, then the loop
FetchBody(resp, address) ==
    IF resp.kind = "not_found" THEN Raised("NotFoundError")
    ELSE IF resp.kind = "connection_error" THEN Raised("ConnectionError")
    ELSE IF resp.kind = "bad_body" THEN Raised("KeyError")
    ELSE FetchLoop(resp.records, address, <<>>)

\* a fetch that catches NotFoundError only
FetchWalletTransactionsNotFoundOnly(resp, address) ==
    LET body == FetchBody(resp, address)
    IN  IF body.exc = "NotFoundError" THEN Returned(<<>>) ELSE body

\* try: ... except NotFoundError: return [] / except Exception: return []
_fetch_wallet_transactions(resp, address) ==
    LET body == FetchBody(resp, address)
    IN  IF body.exc = "NotFoundError" THEN Returned(<<>>)
        ELSE IF body.exc # "none" THEN Returned(<<>>)
        ELSE body

-----------------------------------------------------------------------------
(* _calculate_wallet_metrics and the eight feature computations.  The      *)
(* DataFrame is the list of transactions; is_outgoing is from_address ==   *)
(* address.  A float division is the fixed-point quotient rounded down.    *)

RECURSIVE Sum(_)
Sum(xs) == IF xs = <<>> THEN 0 ELSE Head(xs) + Sum(Tail(xs))

Amounts(txs) == [i \in 1 .. Len(txs) |-> txs[i].amount]

\* 1 XLM = $0.10, every other asset = $1
_calculate_volume_metrics(txs) ==
    Sum([i \in 1 .. Len(txs) |->
            IF txs[i].asset = "XLM" THEN txs[i].amount \div 10
            ELSE txs[i].amount])

\* df['timestamp'].min() is the largest days_ago, .max() the smallest
OldestDaysAgo(txs) ==
    CHOOSE d \in {txs[i].timestamp : i \in 1 .. Len(txs)} :
        \A j \in 1 .. Len(txs) : txs[j].timestamp <= d

NewestDaysAgo(txs) ==
    CHOOSE d \in {txs[i].timestamp : i \in 1 .. Len(txs)} :
        \A j \in 1 .. Len(txs) : txs[j].timestamp >= d

\* the successful transactions counted instead of all of them
CalculateUsageFrequencySuccessfulOnly(txs) ==
    IF Len(txs) = 0 THEN 0
    ELSE LET IsSuccessful(tx) == tx.successful = TRUE
             period_days == OldestDaysAgo(txs) - NewestDaysAgo(txs)
             period_months == Max((period_days * One) \div 30, One)
         IN  (Len(SelectSeq(txs, IsSuccessful)) * One * One) \div period_months

_calculate_usage_frequency(txs) ==
    IF Len(txs) = 0 THEN 0
    ELSE LET period_days == OldestDaysAgo(txs) - NewestDaysAgo(txs)
             period_months == Max((period_days * One) \div 30, One)
         IN  (Len(txs) * One * One) \div period_months

_calculate_diversification_score(txs) ==
    IF Len(txs) = 0 THEN 0
    ELSE LET unique_types == Cardinality({txs[i].type : i \in 1 .. Len(txs)})
             type_diversity == Min((unique_types * One) \div 3, One)
             unique_assets == Cardinality({txs[i].asset : i \in 1 .. Len(txs)})
             asset_diversity == Min((unique_assets * One) \div 5, One)
         IN  (type_diversity * 6 + asset_diversity * 4) \div 10

\* the estimate taken from the net flow alone
EstimateAverageBalanceNetFlowOnly(txs, address) ==
    IF Len(txs) = 0 THEN 0
    ELSE LET IsOutgoing(tx) == tx.from_address = address
             IsIncoming(tx) == tx.from_address # address
             inflow == Sum(Amounts(SelectSeq(txs, IsIncoming)))
             outflow == Sum(Amounts(SelectSeq(txs, IsOutgoing)))
         IN  (inflow - outflow) \div 10

_estimate_average_balance(txs, address) ==
    IF Len(txs) = 0 THEN 0
    ELSE LET IsOutgoing(tx) == tx.from_address = address
             IsIncoming(tx) == tx.from_address # address
             inflow == Sum(Amounts(SelectSeq(txs, IsIncoming)))
             outflow == Sum(Amounts(SelectSeq(txs, IsOutgoing)))
             net_flow == inflow - outflow
             avg_transaction == Sum(Amounts(txs)) \div Len(txs)
         IN  Max(avg_transaction * 10, net_flow \div 10)

_calculate_age_score(txs) ==
    IF Len(txs) = 0 THEN 0
    ELSE LET days_active == OldestDaysAgo(txs)
         IN  IF days_active < NORMALIZATION_LIMITS.min_age_days THEN 300
             ELSE Min((days_active * One) \div NORMALIZATION_LIMITS.optimal_age_days,
                      One)

\* the DataFrame built by _calculate_wallet_metrics has no 'id' column, so
\* unique_interactions is len(df)
_calculate_network_activity(txs) ==
    IF Len(txs) = 0 THEN 0
    ELSE LET unique_interactions == Len(txs)
             max_interactions == 50
         IN  Min((unique_interactions * One) \div max_interactions, One)

_calculate_wallet_metrics(txs, address) ==
    IF txs = <<>> THEN _default_metrics
    ELSE LET IsSuccessful(tx) == tx.successful = TRUE
             transaction_count == Len(SelectSeq(txs, IsSuccessful))
             successful_rate == (transaction_count * One) \div Len(txs)
         IN  WalletMetrics(_calculate_volume_metrics(txs),
                           transaction_count,
                           _estimate_average_balance(txs, address),
                           successful_rate,
                           _calculate_usage_frequency(txs),
                           _calculate_diversification_score(txs),
                           _calculate_age_score(txs),
                           _calculate_network_activity(txs))

-----------------------------------------------------------------------------
(* _generate_recommendations, CreditScore and _create_new_user_score *)

PositiveMessage ==
    "Excelente perfil! Continue mantendo seus bons habitos financeiros"

\* the score rule evaluated first instead of last
GenerateRecommendationsScoreRuleFirst(m, s) ==
    LET r1 == IF m.usage_frequency < 5 * One
              THEN <<"Aumente a frequencia de transacoes para melhorar seu score">>
              ELSE <<>>
        r2 == IF m.diversification_score < 500
              THEN <<"Diversifique seus tipos de transacao e assets utilizados">>
              ELSE <<>>
        r3 == IF m.payment_punctuality < 900
              THEN <<"Mantenha alta taxa de sucesso em suas transacoes">>
              ELSE <<>>
        r4 == IF m.avg_balance < 100 * One
              THEN <<"Mantenha um saldo medio mais alto para demonstrar estabilidade">>
              ELSE <<>>
        r5 == IF s < 300
              THEN <<"Continue usando a rede Stellar para construir seu historico">>
              ELSE <<>>
        recommendations == r5 \o r1 \o r2 \o r3 \o r4
    IN  IF recommendations = <<>> THEN <<PositiveMessage>> ELSE recommendations

_generate_recommendations(m, s) ==
    LET r1 == IF m.usage_frequency < 5 * One
              THEN <<"Aumente a frequencia de transacoes para melhorar seu score">>
              ELSE <<>>
        r2 == IF m.diversification_score < 500
              THEN <<"Diversifique seus tipos de transacao e assets utilizados">>
              ELSE <<>>
        r3 == IF m.payment_punctuality < 900
              THEN <<"Mantenha alta taxa de sucesso em suas transacoes">>
              ELSE <<>>
        r4 == IF m.avg_balance < 100 * One
              THEN <<"Mantenha um saldo medio mais alto para demonstrar estabilidade">>
              ELSE <<>>
        r5 == IF s < 300
              THEN <<"Continue usando a rede Stellar para construir seu historico">>
              ELSE <<>>
        recommendations == r1 \o r2 \o r3 \o r4 \o r5
    IN  IF recommendations = <<>> THEN <<PositiveMessage>> ELSE recommendations

CreditScore(s, m, risk_level, max_loan_amount, interest_rate, recommendations) ==
    [score |-> s, metrics |-> m, risk_level |-> risk_level,
     max_loan_amount |-> max_loan_amount, interest_rate |-> interest_rate,
     recommendations |-> recommendations]

NewUserRecommendations ==
    <<"Comece realizando transacoes na rede Stellar",
      "Mantenha consistencia em suas operacoes",
      "Diversifique os tipos de transacoes realizadas">>

\* a new-user score placed on the first eligible threshold
CreateNewUserScoreEligible ==
    CreditScore(300, _default_metrics, "HIGH", 0, 100, NewUserRecommendations)

\* a new-user result whose metrics are extracted from the (empty) history and
\* whose recommendations are the advisor's
CreateNewUserScoreComputed ==
    CreditScore(250, _default_metrics, "HIGH", 0, 100,
                _generate_recommendations(_default_metrics, 250))

_create_new_user_score ==
    CreditScore(250, _default_metrics, "HIGH", 0, 100, NewUserRecommendations)

-----------------------------------------------------------------------------
(* Values a variable holds before the code has assigned it *)

NoResult == [none |-> TRUE]

NoTerms == <<>>

NoResponse == [kind |-> "none"]

-----------------------------------------------------------------------------
(* What the ledger service can answer.  SampleOps holds one record of each *)
(* shape the fetch loop and the parser tell apart; a batch is any list of  *)
(* at most MaxBatch of them.                                               *)

MaxBatch == 3

SampleOps ==
    {\* well-formed, in the window, timestamps without a UTC offset
     Payment("op1", Text(10, "naive"), WALLET, COUNTERPARTY, Decimal(100 * One),
             "native", TRUE),
     Payment("op2", Text(80, "naive"), COUNTERPARTY, WALLET, Decimal(400 * One),
             "credit_alphanum4", FALSE),
     PathPayment("op3", "path_payment_strict_send", Text(40, "naive"), WALLET,
                 COUNTERPARTY, Decimal(5 * One), "credit_alphanum4",
                 Decimal(50 * One), "native"),
     PathPayment("op4", "path_payment_strict_receive", Text(0, "naive"),
                 COUNTERPARTY, WALLET, Decimal(7 * One), "credit_alphanum12",
                 Decimal(70 * One), "native"),
     \* well-formed, in the window, timestamp as the ledger service writes it
     Payment("op5", Text(5, "utc_z"), COUNTERPARTY, WALLET, Decimal(250 * One),
             "native", TRUE),
     \* well-formed, older than the window
     Payment("op6", Text(120, "naive"), WALLET, COUNTERPARTY, Decimal(30 * One),
             "native", TRUE),
     \* well-formed, dated after the fetch
     Payment("op13", Text(-3, "naive"), COUNTERPARTY, WALLET, Decimal(20 * One),
             "native", TRUE),
     \* well-formed, on either side of the age threshold and of the cutoff
     Payment("op14", Text(29, "naive"), WALLET, COUNTERPARTY, Decimal(60 * One),
             "credit_alphanum4", TRUE),
     Payment("op15", Text(30, "naive"), COUNTERPARTY, WALLET, Decimal(60 * One),
             "credit_alphanum4", TRUE),
     Payment("op16", Text(90, "naive"), COUNTERPARTY, WALLET, Decimal(90 * One),
             "native", FALSE),
     Payment("op17", Text(91, "naive"), WALLET, COUNTERPARTY, Decimal(90 * One),
             "native", TRUE),
     \* not of the payment family
     [id |-> "op7", type |-> "create_account", created_at |-> Text(15, "naive")],
     \* malformed: unparsable timestamp, non-numeric amount, missing fields
     Payment("op8", Text(0, "unparsable"), WALLET, COUNTERPARTY,
             Decimal(10 * One), "native", TRUE),
     Payment("op9", Text(20, "naive"), WALLET, COUNTERPARTY, NotADecimal,
             "native", TRUE),
     Without(Payment("op10", Text(20, "naive"), WALLET, COUNTERPARTY,
                     Decimal(10 * One), "native", TRUE), "from"),
     Without(Payment("op11", Text(20, "naive"), WALLET, COUNTERPARTY,
                     Decimal(10 * One), "native", TRUE), "type"),
     Without(Payment("op12", Text(20, "naive"), WALLET, COUNTERPARTY,
                     Decimal(10 * One), "native", TRUE), "created_at")}

Batches == UNION {[1 .. n -> SampleOps] : n \in 0 .. MaxBatch}

Responses ==
    {[kind |-> "not_found"], [kind |-> "connection_error"], [kind |-> "bad_body"]}
        \cup {[kind |-> "ok", records |-> b] : b \in Batches}

-----------------------------------------------------------------------------
(* analyze_wallet *)

Init ==
    /\ pc = "start"
    /\ response = NoResponse
    /\ transactions = <<>>
    /\ metrics = NoResult
    /\ score = 0
    /\ terms = NoTerms
    /\ stages = <<>>
    /\ result = NoResult

\* transactions = await self._fetch_wallet_transactions(address); an
\* exception is logged and raised again
Fetch ==
    /\ pc = "start"
    /\ \E resp \in Responses :
          LET fetched == _fetch_wallet_transactions(resp, WALLET)
          IN  /\ response' = resp
              /\ transactions' = fetched.val
              /\ pc' = IF fetched.exc # "none" THEN "raised" ELSE "fetched"
    /\ stages' = Append(stages, "FETCH")
    /\ UNCHANGED <<metrics, score, terms, result>>

\* if not transactions: return self._create_new_user_score()
NewUser ==
    /\ pc = "fetched"
    /\ transactions = <<>>
    /\ result' = _create_new_user_score
    /\ stages' = Append(stages, "NEW_USER_RESULT")
    /\ pc' = "done"
    /\ UNCHANGED <<response, transactions, metrics, score, terms>>

\* metrics = self._calculate_wallet_metrics(transactions, address)
CalcMetrics ==
    /\ pc = "fetched"
    /\ transactions # <<>>
    /\ metrics' = _calculate_wallet_metrics(transactions, WALLET)
    /\ stages' = Append(stages, "EXTRACT")
    /\ pc' = "metrics"
    /\ UNCHANGED <<response, transactions, score, terms, result>>

\* score = self._calculate_credit_score(metrics)
CalcScore ==
    /\ pc = "metrics"
    /\ score' = _calculate_credit_score(metrics)
    /\ stages' = Append(stages, "COMPOSE")
    /\ pc' = "scored"
    /\ UNCHANGED <<response, transactions, metrics, terms, result>>

\* risk_level, max_loan, interest_rate = self._determine_loan_terms(score)
LoanTerms ==
    /\ pc = "scored"
    /\ terms' = _determine_loan_terms(score)
    /\ pc' = "terms"
    /\ UNCHANGED <<response, transactions, metrics, score, stages, result>>

\* recommendations = self._generate_recommendations(metrics, score), then
\* the CreditScore is built and returned
Advise ==
    /\ pc = "terms"
    /\ result' = CreditScore(score, metrics, terms[1], terms[2], terms[3],
                             _generate_recommendations(metrics, score))
    /\ stages' = Append(stages, "ADVISE")
    /\ pc' = "done"
    /\ UNCHANGED <<response, transactions, metrics, score, terms>>

Next == Fetch \/ NewUser \/ CalcMetrics \/ CalcScore \/ LoanTerms \/ Advise

Spec == Init /\ [][Next]_vars

-----------------------------------------------------------------------------
(* The score composer as a pure function: the metrics are drawn from a     *)
(* grid that holds, for every input, a negative value, zero, the value of  *)
(* the good-payer fixture and a value above the normalisation ceiling.     *)

ComposeInputs ==
    {"total_volume_3m", "payment_punctuality", "usage_frequency",
     "diversification_score", "avg_balance", "age_score", "network_activity"}

MetricGrid ==
    [total_volume_3m       |-> {-50000 * One, 0, 15000 * One, 60000 * One},
     transaction_count_3m  |-> {47},
     avg_balance           |-> {-10000 * One, 0, 850 * One, 12000 * One},
     payment_punctuality   |-> {-500, 0, 950, 1500},
     usage_frequency       |-> {-100 * One, 0, 15700, 120 * One},
     diversification_score |-> {-500, 0, 800, 1500},
     age_score             |-> {-500, 0, 900, 1500},
     network_activity      |-> {-500, 0, 700, 1500}]

MetricsInputs ==
    {WalletMetrics(vol, cnt, bal, punct, freq, div, age, net) :
        vol \in MetricGrid.total_volume_3m,
        cnt \in MetricGrid.transaction_count_3m,
        bal \in MetricGrid.avg_balance,
        punct \in MetricGrid.payment_punctuality,
        freq \in MetricGrid.usage_frequency,
        div \in MetricGrid.diversification_score,
        age \in MetricGrid.age_score,
        net \in MetricGrid.network_activity}

InitCompose ==
    /\ pc = "metrics"
    /\ response = NoResponse
    /\ transactions = <<>>
    /\ metrics \in MetricsInputs
    /\ score = 0
    /\ terms = NoTerms
    /\ stages = <<>>
    /\ result = NoResult

\* the composer called again with one input raised and the others held fixed
RaiseInput ==
    /\ pc = "scored"
    /\ \E f \in ComposeInputs : \E v \in MetricGrid[f] :
          /\ v > metrics[f]
          /\ metrics' = [metrics EXCEPT ![f] = v]
    /\ score' = _calculate_credit_score(metrics')
    /\ pc' = "rescored"
    /\ UNCHANGED <<response, transactions, terms, stages, result>>

NextCompose == CalcScore \/ LoanTerms \/ RaiseInput

SpecCompose == InitCompose /\ [][NextCompose]_vars

\* "good_payer" of mock_profiles in get_mock_analysis
GoodPayerFixture ==
    [score |-> 750,
     metrics |-> WalletMetrics(15000 * One, 47, 850 * One, 950, 15700, 800, 900, 700),
     risk_level |-> "LOW",
     max_loan_amount |-> 2000 * One,
     interest_rate |-> 20]

-----------------------------------------------------------------------------
(* The terms lookup as a pure function of an integer score *)

ScoreInputs == -200 .. 1000

InitTerms ==
    /\ pc = "scored"
    /\ response = NoResponse
    /\ transactions = <<>>
    /\ metrics = _default_metrics
    /\ score \in ScoreInputs
    /\ terms = NoTerms
    /\ stages = <<>>
    /\ result = NoResult

NextTerms == LoanTerms

SpecTerms == InitTerms /\ [][NextTerms]_vars

-----------------------------------------------------------------------------
(* get_loan_offers of the API server, run on the score the terms lookup    *)
(* has just been run on.  Rates in fixed point: 0.015 is 15.               *)

LoanOffer(amount, interest_rate, duration_months, description) ==
    [amount |-> amount, interest_rate |-> interest_rate,
     duration_months |-> duration_months, description |-> description]

\* the premium band starting at 700 instead of 750
GetLoanOffersPremiumFrom700(s) ==
    IF s < 0 \/ s > 1000 THEN Raised("HTTPException")
    ELSE IF s >= 700 THEN Returned(
        <<LoanOffer(2000 * One, 20, 12, "Emprestimo Premium"),
          LoanOffer(1000 * One, 15, 6, "Emprestimo Rapido")>>)
    ELSE IF s >= 600 THEN Returned(
        <<LoanOffer(1000 * One, 25, 12, "Emprestimo Padrao"),
          LoanOffer(500 * One, 20, 6, "Emprestimo Rapido")>>)
    ELSE IF s >= 450 THEN Returned(
        <<LoanOffer(500 * One, 40, 12, "Emprestimo Intermediario"),
          LoanOffer(200 * One, 35, 6, "Emprestimo Basico")>>)
    ELSE IF s >= 300 THEN Returned(
        <<LoanOffer(200 * One, 60, 6, "Emprestimo Inicial"),
          LoanOffer(100 * One, 50, 3, "Microcredito")>>)
    ELSE Returned(<<>>)

get_loan_offers(s) ==
    IF s < 0 \/ s > 1000 THEN Raised("HTTPException")
    ELSE IF s >= 750 THEN Returned(
        <<LoanOffer(2000 * One, 20, 12, "Emprestimo Premium"),
          LoanOffer(1000 * One, 15, 6, "Emprestimo Rapido")>>)
    ELSE IF s >= 600 THEN Returned(
        <<LoanOffer(1000 * One, 25, 12, "Emprestimo Padrao"),
          LoanOffer(500 * One, 20, 6, "Emprestimo Rapido")>>)
    ELSE IF s >= 450 THEN Returned(
        <<LoanOffer(500 * One, 40, 12, "Emprestimo Intermediario"),
          LoanOffer(200 * One, 35, 6, "Emprestimo Basico")>>)
    ELSE IF s >= 300 THEN Returned(
        <<LoanOffer(200 * One, 60, 6, "Emprestimo Inicial"),
          LoanOffer(100 * One, 50, 3, "Microcredito")>>)
    ELSE Returned(<<>>)

\* GET /loan-offers/{score}: result holds what the endpoint answers
GetLoanOffers ==
    /\ pc = "terms"
    /\ result' = get_loan_offers(score)
    /\ pc' = "offers"
    /\ UNCHANGED <<response, transactions, metrics, score, terms, stages>>

NextOffers == LoanTerms \/ GetLoanOffers

SpecOffers == InitTerms /\ [][NextOffers]_vars

-----------------------------------------------------------------------------
(* The advisor as a pure function of metrics and score: each of the five   *)
(* values it tests is drawn from zero, the largest value under its         *)
(* threshold and the threshold itself.                                     *)

AdviseGrid ==
    [usage_frequency       |-> {0, 5 * One - 1, 5 * One},
     diversification_score |-> {0, 499, 500},
     payment_punctuality   |-> {0, 899, 900},
     avg_balance           |-> {0, 100 * One - 1, 100 * One},
     score                 |-> {0, 299, 300}]

InitAdvise ==
    /\ pc = "terms"
    /\ response = NoResponse
    /\ transactions = <<>>
    /\ metrics \in {WalletMetrics(15000 * One, 47, bal, punct, freq, div, 900, 700) :
                        bal \in AdviseGrid.avg_balance,
                        punct \in AdviseGrid.payment_punctuality,
                        freq \in AdviseGrid.usage_frequency,
                        div \in AdviseGrid.diversification_score}
    /\ score \in AdviseGrid.score
    /\ terms = _determine_loan_terms(score)
    /\ stages = <<>>
    /\ result = NoResult

NextAdvise == Advise

SpecAdvise == InitAdvise /\ [][NextAdvise]_vars

-----------------------------------------------------------------------------
(* Properties *)

\* C1: for every WalletMetrics value, whatever the sign or size of its
\* fields, _calculate_credit_score returns an integer in 0..1000.
C1_ScoreInRange == pc \in {"scored", "rescored", "terms"} => score \in 0 .. 1000

\* C2: every CreditScore that analyze_wallet returns, on the computed path
\* and on the new-user path, carries the risk level, ceiling and rate that
\* _determine_loan_terms gives for the score it carries.
C2_TermsFromScore ==
    pc = "done" =>
        <<result.risk_level, result.max_loan_amount, result.interest_rate>>
            = _determine_loan_terms(result.score)

\* C2 witness: a result of the computed path that is eligible for a loan
C2_Witness ==
    /\ pc = "done"
    /\ stages = <<"FETCH", "EXTRACT", "COMPOSE", "ADVISE">>
    /\ result.risk_level = "MEDIUM"

\* C5: when the fetch yields an empty list, analyze_wallet returns the fixed
\* new-user result (score 250, all eight metrics zero, HIGH, 0.0, 0.10,
\* exactly 3 recommendations) and runs neither extract, compose nor advise.
C5_NewUserResult ==
    (pc = "done" /\ transactions = <<>>) =>
        /\ stages = <<"FETCH", "NEW_USER_RESULT">>
        /\ result.score = 250
        /\ \A f \in DOMAIN result.metrics : result.metrics[f] = 0
        /\ DOMAIN result.metrics = DOMAIN WalletMetrics(0, 0, 0, 0, 0, 0, 0, 0)
        /\ result.risk_level = "HIGH"
        /\ result.max_loan_amount = 0
        /\ result.interest_rate = 100
        /\ Len(result.recommendations) = 3

\* C5 witness: the ledger answered with no records and the call returned
C5_Witness ==
    /\ pc = "done"
    /\ response = [kind |-> "ok", records |-> <<>>]
    /\ transactions = <<>>

\* C6: a failed ledger query (account not found, or any other exception of
\* the query) becomes an empty list and is never raised to the caller of
\* analyze_wallet, which returns the new-user CreditScore.
C6_FetchFailureDegrades ==
    (pc # "start" /\ response.kind \in {"not_found", "connection_error", "bad_body"}) =>
        /\ pc \in {"fetched", "done"}
        /\ transactions = <<>>
        /\ pc = "done" =>
              /\ stages = <<"FETCH", "NEW_USER_RESULT">>
              /\ result.score = 250
              /\ result.risk_level = "HIGH"

\* C6 witness: the query failed with an exception other than NotFoundError
\* and the call returned
C6_Witness == pc = "done" /\ response.kind = "connection_error"

REQUIRED_FIELDS == {"id", "type", "created_at", "from", "to", "amount", "asset_type"}

\* a payment whose fields are all present, whose timestamp parses and whose
\* amount is numeric
WellFormedPayment(op) ==
    /\ REQUIRED_FIELDS \subseteq DOMAIN op
    /\ op.type = "payment"
    /\ op.created_at.form \in {"utc_z", "naive"}
    /\ op.amount.numeric

InWindow(op) == op.created_at.days_ago \in 0 .. LOOKBACK_DAYS

\* a payment-family record with a missing required field, an unparsable
\* timestamp or a non-numeric amount
Malformed(op) ==
    /\ "type" \in DOMAIN op => op.type \in PAYMENT_FAMILY
    /\ \/ ~(REQUIRED_FIELDS \subseteq DOMAIN op)
       \/ op.created_at.form = "unparsable"
       \/ ~op.amount.numeric

\* C7: one malformed record of a batch is dropped alone: every well-formed
\* in-window payment of the same batch is still in the list that
\* _fetch_wallet_transactions returns.  Stated on batches whose well-formed
\* payments carry timestamps without a UTC designator, which the fetch loop
\* can compare with its cutoff.
C7_MalformedDroppedAlone ==
    (/\ pc # "start"
     /\ response.kind = "ok"
     /\ Cardinality({i \in DOMAIN response.records :
                        Malformed(response.records[i])}) = 1
     /\ \A i \in DOMAIN response.records :
           \/ Malformed(response.records[i])
           \/ /\ WellFormedPayment(response.records[i])
              /\ InWindow(response.records[i])
              /\ response.records[i].created_at.form = "naive")
    => \A i \in DOMAIN response.records :
          ~Malformed(response.records[i]) =>
              \E j \in DOMAIN transactions :
                  transactions[j].id = response.records[i].id

\* the transactions of a batch of well-formed in-window payments
ExpectedTransactions(records) ==
    [i \in DOMAIN records |-> ParsePaymentBody(records[i], WALLET).val]

\* C8: when the ledger service returns well-formed payments whose created_at
\* is an ISO-8601 UTC string ending in 'Z' inside the lookback window,
\* analyze_wallet runs FETCH, EXTRACT, COMPOSE, ADVISE, not the new-user
\* branch, and returns the compose output for the metrics of those records.
C8_ComputedPathTaken ==
    (/\ pc = "done"
     /\ response.kind = "ok"
     /\ response.records # <<>>
     /\ \A i \in DOMAIN response.records :
           /\ WellFormedPayment(response.records[i])
           /\ InWindow(response.records[i])
           /\ response.records[i].created_at.form = "utc_z")
    => /\ stages = <<"FETCH", "EXTRACT", "COMPOSE", "ADVISE">>
       /\ result.score =
            _calculate_credit_score(
                _calculate_wallet_metrics(ExpectedTransactions(response.records),
                                          WALLET))

\* C3: for every integer score in 0..1000 the thresholds are evaluated
\* top-down and the first match wins: 750..1000 gives (LOW, 2000.0, 0.02),
\* 600..749 (LOW, 1000.0, 0.025), 450..599 (MEDIUM, 500.0, 0.04),
\* 300..449 (MEDIUM, 200.0, 0.06) and 0..299 (HIGH, 0.0, 0.10).
C3_TermsTable ==
    (pc = "terms" /\ score \in 0 .. 1000) =>
        /\ score \in 750 .. 1000 => terms = <<"LOW", 2000 * One, 20>>
        /\ score \in 600 .. 749 => terms = <<"LOW", 1000 * One, 25>>
        /\ score \in 450 .. 599 => terms = <<"MEDIUM", 500 * One, 40>>
        /\ score \in 300 .. 449 => terms = <<"MEDIUM", 200 * One, 60>>
        /\ score \in 0 .. 299 => terms = <<"HIGH", 0, 100>>

\* C3 witness: the lookup has run on a score of the second band
C3_Witness == pc = "terms" /\ score = 600 /\ terms = <<"LOW", 1000 * One, 25>>

\* C4 as stated: 750 -> LOW/2000.0/0.02, 749 -> MEDIUM/500.0/0.04,
\* 300 -> MEDIUM/200.0/0.06, 299 -> HIGH/0.0/0.10.
C4_BoundariesAsStated ==
    pc = "terms" =>
        /\ score = 750 => terms = <<"LOW", 2000 * One, 20>>
        /\ score = 749 => terms = <<"MEDIUM", 500 * One, 40>>
        /\ score = 300 => terms = <<"MEDIUM", 200 * One, 60>>
        /\ score = 299 => terms = <<"HIGH", 0, 100>>

\* C4 amended: 750 -> LOW/2000.0/0.02, 749 -> LOW/1000.0/0.025,
\* 300 -> MEDIUM/200.0/0.06, 299 -> HIGH/0.0/0.10.
C4_Boundaries ==
    pc = "terms" =>
        /\ score = 750 => terms = <<"LOW", 2000 * One, 20>>
        /\ score = 749 => terms = <<"LOW", 1000 * One, 25>>
        /\ score = 300 => terms = <<"MEDIUM", 200 * One, 60>>
        /\ score = 299 => terms = <<"HIGH", 0, 100>>

\* C4 witness: the lookup has run on the boundary score 749
C4_Witness == pc = "terms" /\ score = 749

\* C9: raising any one of the seven inputs of _calculate_credit_score, the
\* other six held fixed, never lowers the integer score.
C9_Monotonic == [][pc' = "rescored" => score' >= score]_vars

\* C9 witness: the composer has been called again with one input raised and
\* the score went strictly up
C9_Witness ==
    /\ pc = "rescored"
    /\ metrics = [GoodPayerFixture.metrics EXCEPT !.total_volume_3m = 60000 * One]
    /\ score > _calculate_credit_score(GoodPayerFixture.metrics)

\* C10: compose and the terms lookup on the good-payer fixture give the
\* score, tier, ceiling and rate that the fixture carries (750, LOW, 2000.0,
\* 0.02).
C10_FixtureReproduced ==
    (pc = "terms" /\ metrics = GoodPayerFixture.metrics) =>
        /\ score = GoodPayerFixture.score
        /\ terms = <<GoodPayerFixture.risk_level, GoodPayerFixture.max_loan_amount,
                     GoodPayerFixture.interest_rate>>

\* the five rule messages, in rule order
RULE_MESSAGES ==
    <<"Aumente a frequencia de transacoes para melhorar seu score",
      "Diversifique seus tipos de transacao e assets utilizados",
      "Mantenha alta taxa de sucesso em suas transacoes",
      "Mantenha um saldo medio mais alto para demonstrar estabilidade",
      "Continue usando a rede Stellar para construir seu historico">>

\* the rules that trigger on metrics m and score s
TriggeredRules(m, s) ==
    {k \in 1 .. 5 :
        \/ k = 1 /\ m.usage_frequency < 5 * One
        \/ k = 2 /\ m.diversification_score < 500
        \/ k = 3 /\ m.payment_punctuality < 900
        \/ k = 4 /\ m.avg_balance < 100 * One
        \/ k = 5 /\ s < 300}

\* C11: _generate_recommendations returns the messages of the triggered
\* rules in rule order (usage_frequency < 5, diversification_score < 0.5,
\* payment_punctuality < 0.9, avg_balance < 100, score < 300), each once;
\* the list is never empty, and it is the single positive message exactly
\* when no rule triggers.
C11_RecommendationsInRuleOrder ==
    pc = "done" =>
        LET recs == result.recommendations
            trig == TriggeredRules(metrics, score)
        IN  /\ Len(recs) >= 1
            /\ trig = {} <=>
                 recs = <<"Excelente perfil! Continue mantendo seus bons habitos financeiros">>
            /\ trig # {} =>
                 /\ Len(recs) = Cardinality(trig)
                 /\ \A k \in trig :
                       recs[Cardinality({j \in trig : j <= k})] = RULE_MESSAGES[k]

\* C11 witness: the advisor has run with the second and the fifth rule
\* triggered, and with none triggered
C11_Witness ==
    /\ pc = "done"
    /\ TriggeredRules(metrics, score) = {2, 5}
    /\ Len(result.recommendations) = 2

\* _calculate_wallet_metrics has run on the fetched transactions
Extracted == \E i \in DOMAIN stages : stages[i] = "EXTRACT"

\* C12: every transaction that analyze_wallet passes to
\* _calculate_wallet_metrics has a timestamp inside the lookback window:
\* not older than 90 days before the fetch and not after the fetch.
C12_OnlyInWindowExtracted ==
    Extracted =>
        \A i \in DOMAIN transactions :
            transactions[i].timestamp \in 0 .. LOOKBACK_DAYS

Relabel(asset_type) == IF asset_type = "native" THEN "XLM" ELSE asset_type

\* C14: an accepted record is classified outgoing (payment,
\* path_payment_send) exactly when its 'from' is the wallet and incoming
\* (receive, path_payment_receive) otherwise; a path payment carries the
\* source-side amount and asset when outgoing and the destination-side pair
\* when incoming.
C14_DirectionAndSide ==
    (pc # "start" /\ response.kind = "ok") =>
        \A j \in DOMAIN transactions :
            /\ \E i \in DOMAIN response.records :
                  response.records[i].id = transactions[j].id
            /\ \A i \in DOMAIN response.records :
                  response.records[i].id = transactions[j].id =>
                    LET rec == response.records[i]
                        tx == transactions[j]
                        outgoing == rec.from = WALLET
                    IN  /\ tx.type \in {"payment", "path_payment_send"} <=> outgoing
                        /\ tx.type \in {"receive", "path_payment_receive"} <=> ~outgoing
                        /\ tx.type \in {"payment", "receive"} <=> rec.type = "payment"
                        /\ (rec.type # "payment" /\ outgoing) =>
                              /\ tx.amount = rec.source_amount.value
                              /\ tx.asset = Relabel(rec.source_asset_type)
                        /\ (rec.type = "payment" \/ ~outgoing) =>
                              /\ tx.amount = rec.amount.value
                              /\ tx.asset = Relabel(rec.asset_type)

\* C14 witness: an outgoing and an incoming path payment were both accepted
C14_Witness ==
    /\ pc = "fetched"
    /\ \E j \in DOMAIN transactions :
          /\ transactions[j].type = "path_payment_send"
          /\ transactions[j].amount = 50 * One
          /\ transactions[j].asset = "XLM"
    /\ \E j \in DOMAIN transactions :
          /\ transactions[j].type = "path_payment_receive"
          /\ transactions[j].amount = 7 * One

\* C15 as stated: for a single transaction, usage_frequency equals the
\* transaction_count metric divided by one, successful or not.
C15_FrequencyIsCountMetric ==
    (Extracted /\ Len(transactions) = 1) =>
        metrics.usage_frequency = metrics.transaction_count_3m * One

\* C15 amended: for a single transaction, usage_frequency is 1.0, the number
\* of transactions (successful or not) divided by one month; it equals the
\* transaction_count metric when the transaction is successful, and that
\* metric is 0 when it is not.
C15_SingleTransactionFrequency ==
    (Extracted /\ Len(transactions) = 1) =>
        /\ metrics.usage_frequency = Len(transactions) * One
        /\ transactions[1].successful =>
              metrics.usage_frequency = metrics.transaction_count_3m * One
        /\ ~transactions[1].successful => metrics.transaction_count_3m = 0

\* C15 witness: metrics extracted from a single unsuccessful transaction
C15_Witness ==
    /\ Extracted
    /\ Len(transactions) = 1
    /\ ~transactions[1].successful

\* C16: network_activity is min(number of distinct transaction identifiers
\* / 50, 1), also when two transactions carry the same identifier.
C16_NetworkActivityDistinctIds ==
    Extracted =>
        metrics.network_activity =
            Min((Cardinality({transactions[i].id : i \in DOMAIN transactions}) * One)
                    \div 50, One)

C17_OffersFollowTable ==
    (pc = "offers" /\ score \in 0 .. 1000) =>
        /\ result.exc = "none"
        /\ result.val = <<>> <=> terms[1] = "HIGH"
        /\ terms[1] = "HIGH" => terms[2] = 0
        /\ result.val # <<>> =>
              /\ result.val[1].amount = terms[2]
              /\ result.val[1].interest_rate = terms[3]
              /\ \A i \in DOMAIN result.val : result.val[i].amount <= terms[2]

\* C17 witness: the endpoint answered for the boundary score 750
C17_Witness ==
    /\ pc = "offers"
    /\ score = 750
    /\ Len(result.val) = 2
    /\ result.val[1].amount = 2000 * One

====
